---- MODULE Spec2Model ----
(***************************************************************************)
(* Physical memory buddy allocator of the kernel (memory/_kmem.rs).        *)
(*                                                                         *)
(* Physical memory is modelled as `ram', a map from the byte address of a  *)
(* 32-bit word to the word stored there.  Both the intrusive free-list     *)
(* links (FreeBlock.next, written at the first word of a free block) and   *)
(* the bitmap words (the slice `allocated_pages') live in `ram', so a      *)
(* block address that coincides with a bitmap word aliases it, as it does  *)
(* on the machine.  A word is the set of the positions of its 1 bits.      *)
(*                                                                         *)
(* A usize is 32 bits wide.  The counter `allocated_count' is kept as the  *)
(* integer of [-2^31, 2^31) congruent to the stored value modulo 2^32, so  *)
(* a negative integer c stands for the stored value 2^32 + c.              *)
(*                                                                         *)
(* A null pointer is the address 0: a list head equal to 0 is an empty     *)
(* list, whatever was stored through it.                                   *)
(***************************************************************************)
EXTENDS Integers, Sequences, FiniteSets, Bags, TLC

PAGE_SIZE == 4096
MAX_ORDER == 11
USIZE_BITS == 32
WORD_BYTES == 4
NULL == 0
KERNEL_MEMORY_START == 1 * 1024 * 1024

\* Number of allocations the callers hold at the same time.
MaxLive == 2

\* Number of calls that hand out a block or take one back.
MaxOps == 4

\* The same number for the long runs on the kernel's own memory map.
DeepOps == 6

Orders == 0 .. MAX_ORDER

\* The orders the callers ask for: the small ones, the greatest, and one
\* beyond MAX_ORDER.
RequestOrders == { 0, 1, 2, MAX_ORDER, MAX_ORDER + 1 }

\* The addresses of the free requests that are not for a block the caller
\* holds: one inside a page, one at an odd page.
DroppedAddrs == { PAGE_SIZE + WORD_BYTES, 3 * PAGE_SIZE }

\* The page counts the callers ask allocate_pages and free_pages for.
RequestCounts == { 0, 1, 3, 2 ^ MAX_ORDER, 2 ^ MAX_ORDER + 1 }

\* Number of pages in the 2^32-byte address space.
SpacePages == (2 ^ (USIZE_BITS - 2)) \div (PAGE_SIZE \div 4)

----------------------------------------------------------------------------
(* Machine words *)

WordBits == 0 .. (USIZE_BITS - 1)

\* The word whose value is n, for 0 <= n < 2^31.
ToWord(n) == { i \in 0 .. (USIZE_BITS - 2) : (n \div (2 ^ i)) % 2 = 1 }

RECURSIVE SumBits(_)
SumBits(w) ==
    IF w = {} THEN 0
    ELSE LET i == CHOOSE x \in w : TRUE
         IN  (2 ^ i) + SumBits(w \ {i})

\* The value of a word whose top bit is clear.
FromWord(w) == SumBits(w)

\* `ram' holds the words whose content is known: those the allocator has
\* stored (a free-list link or a bitmap word) and that no caller owns.  A
\* pointer loaded from any other place, or one the model cannot represent
\* (loaded through an unaligned address, or at or above 2^31), is UNKNOWN.
UNKNOWN == -1

CanLoad(ram, a) ==
    /\ a # UNKNOWN
    /\ a % WORD_BYTES = 0
    /\ a \in DOMAIN ram
    /\ (USIZE_BITS - 1) \notin ram[a]

LoadPtr(ram, a) == IF CanLoad(ram, a) THEN FromWord(ram[a]) ELSE UNKNOWN

StoreWord(ram, a, w) ==
    [x \in (DOMAIN ram) \cup {a} |-> IF x = a THEN w ELSE ram[x]]

\* Store of a pointer: an UNKNOWN pointer leaves an unknown word.
StorePtr(ram, a, ptr) ==
    IF ptr = UNKNOWN
    THEN [x \in (DOMAIN ram) \ {a} |-> ram[x]]
    ELSE StoreWord(ram, a, ToWord(ptr))


----------------------------------------------------------------------------
(* Size arithmetic *)

order_to_size(order) == PAGE_SIZE * (2 ^ order)

RECURSIVE size_to_order_loop(_, _, _)
size_to_order_loop(pages, order, order_size) ==
    IF order_size < pages /\ order < MAX_ORDER
    THEN size_to_order_loop(pages, order + 1, order_size * 2)
    ELSE order

size_to_order(size) == size_to_order_loop(size \div PAGE_SIZE, 0, 1)

\* The loop without the test `addr + next_size > end_addr'.
RECURSIVE max_block_size_loop_unbounded(_, _, _, _)
max_block_size_loop_unbounded(addr, end_addr, size, order) ==
    IF order < MAX_ORDER
    THEN LET next_size == size * 2
         IN  IF addr % next_size # 0
             THEN size
             ELSE max_block_size_loop_unbounded(addr, end_addr, next_size,
                                                order + 1)
    ELSE size

RECURSIVE max_block_size_loop(_, _, _, _)
max_block_size_loop(addr, end_addr, size, order) ==
    IF order < MAX_ORDER
    THEN LET next_size == size * 2
         IN  IF addr % next_size # 0 \/ addr + next_size > end_addr
             THEN size
             ELSE max_block_size_loop(addr, end_addr, next_size, order + 1)
    ELSE size

max_block_size(addr, end_addr) == max_block_size_loop(addr, end_addr, PAGE_SIZE, 0)

align_up(value, align) == ((value + align - 1) \div align) * align

align_down(value, align) == (value \div align) * align

\* addr ^ size for a size that is a power of two: flips the one bit of size.
XorSize(addr, size) ==
    IF (addr \div size) % 2 = 1 THEN addr - size ELSE addr + size

----------------------------------------------------------------------------
(* The allocator object.  A machine record m holds the fields of           *)
(* BuddyAllocator, the memory `ram', the build's overflow checking          *)
(* (`checks') and the fate of the kernel (`status': "running", "panicked"   *)
(* after an arithmetic-overflow panic, "hung" in a loop that never ends,    *)
(* "wild" after an access through a pointer the model cannot follow).       *)

Halt(m, why) == [m EXCEPT !.status = why]

Running(m) == m.status = "running"

\* (addr - memory_start) / PAGE_SIZE in usize arithmetic: a panic when
\* overflow checks are compiled in, the wrapped value otherwise.
PageIndex(m, addr) ==
    IF addr >= m.memory_start
    THEN [panic |-> FALSE, idx |-> (addr - m.memory_start) \div PAGE_SIZE]
    ELSE IF m.checks
    THEN [panic |-> TRUE, idx |-> 0]
    ELSE [panic |-> FALSE,
          idx |-> SpacePages
                  - ((m.memory_start - addr + PAGE_SIZE - 1) \div PAGE_SIZE)]

BitmapWordAddr(m, bitmap_idx) == m.allocated_pages.addr + WORD_BYTES * bitmap_idx

\* The page indices of start_idx .. start_idx+count-1 that pass the two
\* guards of the marking loops (idx < total_pages, bitmap_idx < len): the
\* interval lo .. hi, empty when hi < lo.
MarkedLo(m, start_idx) == start_idx

MarkedHi(m, start_idx, count) ==
    LET a == start_idx + count - 1
        b == m.total_pages - 1
        c == (m.allocated_pages.len * USIZE_BITS) - 1
        ab == IF a < b THEN a ELSE b
    IN  IF ab < c THEN ab ELSE c

\* The bits of bitmap word w that belong to pages lo .. hi.
BitsIn(w, lo, hi) ==
    LET first == IF lo > w * USIZE_BITS THEN lo - w * USIZE_BITS ELSE 0
        last_bit == IF hi < w * USIZE_BITS + USIZE_BITS - 1
                    THEN hi - w * USIZE_BITS ELSE USIZE_BITS - 1
    IN  first .. last_bit

BitIsSet(m, idx) ==
    (idx % USIZE_BITS) \in m.ram[BitmapWordAddr(m, idx \div USIZE_BITS)]

\* The number of bits of pages lo .. hi, in words w and above, that a
\* fetch_and (toOne = FALSE) or fetch_or (toOne = TRUE) flips.
RECURSIVE CountFlips(_, _, _, _, _)
CountFlips(m, w, lo, hi, toOne) ==
    IF w * USIZE_BITS > hi THEN 0
    ELSE LET bits == BitsIn(w, lo, hi)
             old == m.ram[BitmapWordAddr(m, w)]
             flips == IF toOne THEN bits \ old ELSE bits \cap old
         IN  Cardinality(flips) + CountFlips(m, w + 1, lo, hi, toOne)

MarkWords(m, lo, hi, toOne) ==
    LET words == { BitmapWordAddr(m, w) :
                     w \in (lo \div USIZE_BITS) .. (hi \div USIZE_BITS) }
        wordOf(a) == (a - m.allocated_pages.addr) \div WORD_BYTES
    IN  [a \in DOMAIN m.ram |->
            IF a \in words
            THEN IF toOne
                 THEN m.ram[a] \cup BitsIn(wordOf(a), lo, hi)
                 ELSE m.ram[a] \ BitsIn(wordOf(a), lo, hi)
            ELSE m.ram[a]]

\* The bitmap words of pages lo .. hi all have known content.
WordsKnown(m, lo, hi) ==
    \A w \in (lo \div USIZE_BITS) .. (hi \div USIZE_BITS) :
        BitmapWordAddr(m, w) \in DOMAIN m.ram

\* The marking with the counter lowered for every page of the range.
mark_pages_as_free_unconditional(m, start_idx, count) ==
    LET lo == MarkedLo(m, start_idx)
        hi == MarkedHi(m, start_idx, count)
    IN  IF hi < lo THEN m
        ELSE IF ~WordsKnown(m, lo, hi) THEN Halt(m, "wild")
        ELSE [m EXCEPT
                !.ram = MarkWords(m, lo, hi, FALSE),
                !.allocated_count = @ - (hi - lo + 1)]

mark_pages_as_free(m, start_idx, count) ==
    LET lo == MarkedLo(m, start_idx)
        hi == MarkedHi(m, start_idx, count)
    IN  IF hi < lo THEN m
        ELSE IF ~WordsKnown(m, lo, hi) THEN Halt(m, "wild")
        ELSE [m EXCEPT
                !.ram = MarkWords(m, lo, hi, FALSE),
                !.allocated_count =
                    @ - CountFlips(m, lo \div USIZE_BITS, lo, hi, FALSE)]

mark_pages_as_allocated(m, start_idx, count) ==
    LET lo == MarkedLo(m, start_idx)
        hi == MarkedHi(m, start_idx, count)
    IN  IF hi < lo THEN m
        ELSE IF ~WordsKnown(m, lo, hi) THEN Halt(m, "wild")
        ELSE [m EXCEPT
                !.ram = MarkWords(m, lo, hi, TRUE),
                !.allocated_count =
                    @ + CountFlips(m, lo \div USIZE_BITS, lo, hi, TRUE)]

free_region(m, addr, order) ==
    IF order > MAX_ORDER THEN m
    ELSE LET pi == PageIndex(m, addr)
         IN  IF pi.panic THEN Halt(m, "panicked")
             ELSE IF addr % WORD_BYTES # 0 THEN Halt(m, "wild")
             ELSE LET m1 == mark_pages_as_free(m, pi.idx, 2 ^ order)
                  IN  IF ~Running(m1) THEN m1
                      ELSE [m1 EXCEPT
                              !.ram = StorePtr(m1.ram, addr, m1.free_lists[order]),
                              !.free_lists[order] = addr]

----------------------------------------------------------------------------
(* allocate *)

\* The split loop of find_free_block: gives back the upper half at every
\* order from current_order - 1 down to order.
RECURSIVE SplitDown(_, _, _, _)
SplitDown(m, block_addr, current_order, order) ==
    IF current_order > order /\ Running(m)
    THEN LET co == current_order - 1
             buddy_addr == block_addr + order_to_size(co)
         IN  SplitDown(free_region(m, buddy_addr, co), block_addr, co, order)
    ELSE m

\* The search loop with the test `current_order < MAX_ORDER'.
RECURSIVE FindFrom_below_max(_, _, _)
FindFrom_below_max(m, order, current_order) ==
    IF current_order < MAX_ORDER
    THEN IF m.free_lists[current_order] # NULL
         THEN LET block == m.free_lists[current_order]
              IN  IF block = UNKNOWN
                  THEN [m |-> Halt(m, "wild"), found |-> FALSE, addr |-> NULL]
                  ELSE LET m1 == [m EXCEPT !.free_lists[current_order] =
                                               LoadPtr(m.ram, block)]
                       IN  [m |-> SplitDown(m1, block, current_order, order),
                            found |-> TRUE, addr |-> block]
         ELSE FindFrom_below_max(m, order, current_order + 1)
    ELSE [m |-> m, found |-> FALSE, addr |-> NULL]

RECURSIVE FindFrom(_, _, _)
FindFrom(m, order, current_order) ==
    IF current_order <= MAX_ORDER
    THEN IF m.free_lists[current_order] # NULL
         THEN LET block == m.free_lists[current_order]
              IN  IF block = UNKNOWN
                  THEN [m |-> Halt(m, "wild"), found |-> FALSE, addr |-> NULL]
                  ELSE LET m1 == [m EXCEPT !.free_lists[current_order] =
                                               LoadPtr(m.ram, block)]
                       IN  [m |-> SplitDown(m1, block, current_order, order),
                            found |-> TRUE, addr |-> block]
         ELSE FindFrom(m, order, current_order + 1)
    ELSE [m |-> m, found |-> FALSE, addr |-> NULL]

find_free_block(m, order) == FindFrom(m, order, order)

\* The result of a call: the machine after it, the variant returned and
\* the address inside Ok.  A call that does not return has result "none".
Ret(m, result, addr) == [m |-> m, result |-> result, addr |-> addr]

allocate(m, order) ==
    IF ~m.initialized THEN Ret(m, "NotInitialized", NULL)
    ELSE IF order > MAX_ORDER THEN Ret(m, "InvalidSize", NULL)
    ELSE LET f == find_free_block(m, order)
         IN  IF ~Running(f.m) THEN Ret(f.m, "none", NULL)
             ELSE IF f.found
             THEN LET pi == PageIndex(f.m, f.addr)
                  IN  IF pi.panic THEN Ret(Halt(f.m, "panicked"), "none", NULL)
                      ELSE Ret(mark_pages_as_allocated(f.m, pi.idx, 2 ^ order),
                               "Ok", f.addr)
             ELSE Ret(f.m, "OutOfMemory", NULL)

----------------------------------------------------------------------------
(* free *)

\* The scan of is_buddy_free: "yes", "no", "hung" when the list runs into a
\* cycle that does not hold the buddy, "wild" when a link cannot be followed.
RECURSIVE ScanFor(_, _, _, _)
ScanFor(ram, current, target, seen) ==
    IF current = UNKNOWN THEN "wild"
    ELSE IF current = NULL THEN "no"
    ELSE IF current = target THEN "yes"
    ELSE IF current \in seen THEN "hung"
    ELSE ScanFor(ram, LoadPtr(ram, current), target, seen \cup {current})

is_buddy_free(m, buddy_addr, order) ==
    IF \/ buddy_addr < m.memory_start
       \/ buddy_addr + order_to_size(order) > m.memory_end
    THEN "no"
    ELSE ScanFor(m.ram, m.free_lists[order], buddy_addr, {})

\* The search of remove_from_free_list for the block whose link is addr.
RECURSIVE UnlinkFrom(_, _, _, _)
UnlinkFrom(m, current, addr, seen) ==
    IF current = UNKNOWN THEN Halt(m, "wild")
    ELSE IF current = NULL THEN m
    ELSE IF current \in seen THEN Halt(m, "hung")
    ELSE IF LoadPtr(m.ram, current) = addr
    THEN [m EXCEPT !.ram = StorePtr(m.ram, current, LoadPtr(m.ram, addr))]
    ELSE UnlinkFrom(m, LoadPtr(m.ram, current), addr, seen \cup {current})

remove_from_free_list(m, addr, order) ==
    IF m.free_lists[order] = addr
    THEN [m EXCEPT !.free_lists[order] = LoadPtr(m.ram, addr)]
    ELSE UnlinkFrom(m, m.free_lists[order], addr, {})

RECURSIVE free_block(_, _, _)
free_block(m, addr, order) ==
    IF order > MAX_ORDER THEN m
    ELSE LET buddy_addr == XorSize(addr, order_to_size(order))
             isfree == is_buddy_free(m, buddy_addr, order)
         IN  IF isfree = "yes"
             THEN LET m1 == remove_from_free_list(m, buddy_addr, order)
                      merged_addr == IF addr < buddy_addr THEN addr ELSE buddy_addr
                  IN  IF Running(m1) THEN free_block(m1, merged_addr, order + 1)
                      ELSE m1
             ELSE IF isfree = "no" THEN free_region(m, addr, order)
             ELSE Halt(m, isfree)

\* free without the test of the alignment.
free_any_address(m, addr, order) ==
    IF ~m.initialized \/ order > MAX_ORDER THEN m
    ELSE free_block(m, addr, order)

free(m, addr, order) ==
    IF ~m.initialized \/ order > MAX_ORDER THEN m
    ELSE IF addr % order_to_size(order) # 0 THEN m
    ELSE free_block(m, addr, order)

----------------------------------------------------------------------------
(* Statistics *)

total_pages_of(m) == m.total_pages

allocated_pages_of(m) == m.allocated_count

\* total_pages - allocated_pages(): the subtraction underflows when the
\* stored counter is above total_pages (a negative representative, or one
\* above total_pages); it then panics or wraps, as the build decides.
free_pages_of(m) ==
    IF 0 <= m.allocated_count /\ m.allocated_count <= m.total_pages
    THEN [panic |-> FALSE, val |-> m.total_pages - m.allocated_count]
    ELSE IF m.checks
    THEN [panic |-> TRUE, val |-> 0]
    ELSE [panic |-> FALSE, val |-> m.total_pages - m.allocated_count]

----------------------------------------------------------------------------
(* Bootstrap *)

\* A u64 of the memory map is the pair of its 32-bit halves.
U64(hi, lo) == [hi |-> hi, lo |-> lo]

\* `x as usize': the low 32 bits.
AsUsize(x) == x.lo

MultibootMmapEntry(addr, len, entry_type) ==
    [addr |-> addr, len |-> len, entry_type |-> entry_type]

new(memory_start, memory_end, bitmap_region, ram, checks) ==
    LET total_memory == memory_end - memory_start
    IN  [free_lists      |-> [o \in Orders |-> NULL],
         total_memory    |-> total_memory,
         memory_start    |-> memory_start,
         memory_end      |-> memory_end,
         initialized     |-> FALSE,
         allocated_pages |-> bitmap_region,
         allocated_count |-> 0,
         total_pages     |-> total_memory \div PAGE_SIZE,
         ram             |-> ram,
         status          |-> "running",
         checks          |-> checks]

\* The bitmap reset of initialize: every word below bitmap_entries that the
\* slice holds is set to all ones.
ResetBitmap(m) ==
    LET bitmap_entries == (m.total_pages + 31) \div 32
        words == { BitmapWordAddr(m, i) :
                     i \in { j \in 0 .. (bitmap_entries - 1) :
                               j < m.allocated_pages.len } }
    IN  [m EXCEPT !.ram = [a \in (DOMAIN m.ram) \cup words |->
                              IF a \in words THEN WordBits ELSE m.ram[a]]]

\* The walk of one aligned region.
RECURSIVE WalkRegion(_, _, _)
WalkRegion(m, addr, aligned_end) ==
    IF addr + PAGE_SIZE <= aligned_end /\ Running(m)
    THEN LET size == max_block_size(addr, aligned_end)
             order == size_to_order(size)
         IN  WalkRegion(free_region(m, addr, order), addr + size, aligned_end)
    ELSE m

ProcessEntry(m, entry) ==
    LET region_start == AsUsize(entry.addr)
        region_end == region_start + AsUsize(entry.len)
        aligned_start == align_up(region_start, PAGE_SIZE)
        aligned_end == align_down(region_end, PAGE_SIZE)
    IN  IF aligned_start >= aligned_end THEN m
        ELSE WalkRegion(m, aligned_start, aligned_end)

RECURSIVE ProcessEntries(_, _, _)
ProcessEntries(m, entries, i) ==
    IF i > Len(entries) \/ ~Running(m) THEN m
    ELSE IF entries[i].entry_type = "Available"
    THEN ProcessEntries(ProcessEntry(m, entries[i]), entries, i + 1)
    ELSE ProcessEntries(m, entries, i + 1)

\* initialize past its guard: clear the lists, reset the bitmap, walk the
\* memory map, raise the flag.
initialize_body(m, entries) ==
    LET m1 == [m EXCEPT !.free_lists = [o \in Orders |-> NULL]]
        m2 == ResetBitmap(m1)
        m3 == ProcessEntries(m2, entries, 1)
    IN  IF Running(m3) THEN [m3 EXCEPT !.initialized = TRUE] ELSE m3

\* initialize without the test of the flag.
initialize_unguarded(m, entries) == initialize_body(m, entries)

initialize(m, entries) ==
    IF m.initialized THEN m ELSE initialize_body(m, entries)

----------------------------------------------------------------------------
(* The global instance and the module-level functions *)

U64Less(a, b) == a.hi < b.hi \/ (a.hi = b.hi /\ a.lo < b.lo)

\* Iterator::max under Ord for MultibootMmapEntry (by len): the last of the
\* entries of greatest len.
RECURSIVE MaxEntry(_, _, _)
MaxEntry(entries, i, best) ==
    IF i > Len(entries) THEN best
    ELSE IF U64Less(entries[i].len, entries[best].len)
    THEN MaxEntry(entries, i + 1, best)
    ELSE MaxEntry(entries, i + 1, i)

AvailableEntries(entries) ==
    SelectSeq(entries, LAMBDA e : e.entry_type = "Available")

\* OnceLock::set: the cell takes the first value offered and refuses the
\* later ones.
OnceLock_set(state) ==
    [state |-> "Complete", ok |-> state = "Incomplete"]

\* The allocator that the module-level initialize builds and initializes
\* over the memory `ram'.
kmem_build(entries, ram, checks) ==
    LET avail == AvailableEntries(entries)
        largest == avail[MaxEntry(avail, 1, 1)]
        memory_start == KERNEL_MEMORY_START
        memory_end == AsUsize(largest.addr) + AsUsize(largest.len)
        total_memory == memory_end - memory_start
        total_pages == total_memory \div PAGE_SIZE
        bitmap_size_bytes == (total_pages + 7) \div 8
        bitmap_size_words == (bitmap_size_bytes + WORD_BYTES - 1) \div WORD_BYTES
        bitmap_addr == AsUsize(largest.addr)
        bitmap_slice == [addr |-> bitmap_addr, len |-> bitmap_size_words]
    IN  initialize(new(memory_start, memory_end, bitmap_slice, ram, checks),
                   entries)

\* OnceLock::get_mut: the installed allocator, if one is installed.
OnceLock_get_mut(state) == state = "Complete"

\* OnceLock::get: a reference to the value, handed out without a look at
\* the Once; before a value is installed it refers to uninitialized memory.
OnceLock_get(state) == [uninit |-> state # "Complete"]

\* The loop with the test `order_size <= count'.
RECURSIVE pages_order_loop_le(_, _, _)
pages_order_loop_le(count, order, order_size) ==
    IF order_size <= count
    THEN IF order + 1 > MAX_ORDER
         THEN [ok |-> FALSE, order |-> order + 1]
         ELSE pages_order_loop_le(count, order + 1, order_size * 2)
    ELSE [ok |-> TRUE, order |-> order]

\* The loop of allocate_pages and free_pages: the smallest order whose block
\* holds `count' pages, or no order when that would exceed MAX_ORDER.
RECURSIVE pages_order_loop(_, _, _)
pages_order_loop(count, order, order_size) ==
    IF order_size < count
    THEN IF order + 1 > MAX_ORDER
         THEN [ok |-> FALSE, order |-> order + 1]
         ELSE pages_order_loop(count, order + 1, order_size * 2)
    ELSE [ok |-> TRUE, order |-> order]

\* allocate_pages on the global instance whose Once is in `state' and whose
\* allocator, once installed, is m.
allocate_pages(m, state, count) ==
    IF count = 0 THEN Ret(m, "InvalidSize", NULL)
    ELSE LET o == pages_order_loop(count, 0, 1)
         IN  IF ~o.ok THEN Ret(m, "InvalidSize", NULL)
             ELSE IF OnceLock_get_mut(state) THEN allocate(m, o.order)
             ELSE Ret(m, "NotInitialized", NULL)

free_pages(m, state, addr, count) ==
    IF count = 0 THEN m
    ELSE LET o == pages_order_loop(count, 0, 1)
         IN  IF ~o.ok THEN m
             ELSE IF OnceLock_get_mut(state) THEN free(m, addr, o.order)
             ELSE m

\* memory_stats: the outcomes the call can have.  With an allocator installed
\* it returns Some of the three counts, unless free_pages() panics.  Before
\* that, get() yields uninitialized memory and the call may take either
\* branch ("UninitSome", "UninitNone").
memory_stats(m, state) ==
    IF OnceLock_get(state).uninit
    THEN { Ret(m, "UninitSome", NULL), Ret(m, "UninitNone", NULL) }
    ELSE IF free_pages_of(m).panic
    THEN { Ret(Halt(m, "panicked"), "none", NULL) }
    ELSE { Ret(m, "Some", NULL) }

----------------------------------------------------------------------------
(* Boot configurations: how the allocator is constructed ("direct": by      *)
(* BuddyAllocator::new over given bounds and bitmap storage; "kernel": by   *)
(* the module-level initialize), and the firmware's memory map.             *)

Avail(lo, len) == MultibootMmapEntry(U64(0, lo), U64(0, len), "Available")

Resvd(lo, len) == MultibootMmapEntry(U64(0, lo), U64(0, len), "Reserved")

Platform(name, kind, memory_start, memory_end, bitmap_addr, entries) ==
    [name |-> name, kind |-> kind, memory_start |-> memory_start,
     memory_end |-> memory_end, bitmap_addr |-> bitmap_addr,
     entries |-> entries]

\* One region [0x0, 0x2000), bounds [0x0, 0x2000).
ScenarioA ==
    Platform("ScenarioA", "direct", 0, 2 * PAGE_SIZE, 1792 * 1024 * 1024,
             << Avail(0, 2 * PAGE_SIZE) >>)

\* One region [0x1001, 0x3000), bounds [0x1000, 0x3000).
ScenarioB ==
    Platform("ScenarioB", "direct", PAGE_SIZE, 3 * PAGE_SIZE, 1792 * 1024 * 1024,
             << Avail(PAGE_SIZE + 1, 2 * PAGE_SIZE - 1) >>)

\* Eight pages in one region at 64 KiB, with a reserved hole after it.
Small ==
    Platform("Small", "direct", 16 * PAGE_SIZE, 24 * PAGE_SIZE, 1792 * 1024 * 1024,
             << Avail(16 * PAGE_SIZE, 8 * PAGE_SIZE),
                Resvd(24 * PAGE_SIZE, 8 * PAGE_SIZE) >>)

\* Two blocks of the greatest order: 16 MiB at 16 MiB.
TwoMax ==
    Platform("TwoMax", "direct", 16 * 1024 * 1024, 32 * 1024 * 1024,
             1792 * 1024 * 1024,
             << Avail(16 * 1024 * 1024, 16 * 1024 * 1024) >>)

\* A machine with RAM above 4 GiB: the last entry is [2^32 + 0x2000,
\* 2^32 + 0x5000).
HighMem ==
    Platform("HighMem", "direct", 0, 8 * PAGE_SIZE, 1792 * 1024 * 1024,
             << Avail(2 * PAGE_SIZE, 2 * PAGE_SIZE),
                Resvd(4 * PAGE_SIZE, 4 * PAGE_SIZE),
                MultibootMmapEntry(U64(1, 2 * PAGE_SIZE), U64(0, 3 * PAGE_SIZE),
                                   "Available") >>)

\* Bounds [0x10000, 0x14000) given with a memory map that also lists two
\* pages of RAM below them, at 0x8000.
LowRam ==
    Platform("LowRam", "direct", 16 * PAGE_SIZE, 20 * PAGE_SIZE,
             1792 * 1024 * 1024,
             << Avail(8 * PAGE_SIZE, 2 * PAGE_SIZE),
                Avail(16 * PAGE_SIZE, 4 * PAGE_SIZE) >>)

\* A PC memory map handed to the module-level initialize: low memory (here
\* 15 KiB of it), the BIOS area, 1 MiB of RAM at 1 MiB.
Kernel ==
    Platform("Kernel", "kernel", 0, 0, 0,
             << Avail(0, 15 * 1024),
                Resvd(15 * 1024, 1024),
                Resvd(960 * 1024, 64 * 1024),
                Avail(1024 * 1024, 1024 * 1024),
                Resvd(2 * 1024 * 1024, 64 * 1024) >>)

Platforms == { ScenarioA, ScenarioB, Small, TwoMax, HighMem, LowRam, Kernel }

\* A memory map that lists four pages of RAM at 64 KiB as two adjacent
\* Available entries of two pages each, and after them an Available entry
\* [0x14001, 0x14fff) that holds no whole page.
Adjacent ==
    Platform("Adjacent", "direct", 16 * PAGE_SIZE, 20 * PAGE_SIZE,
             1792 * 1024 * 1024,
             << Avail(16 * PAGE_SIZE, 2 * PAGE_SIZE),
                Avail(18 * PAGE_SIZE, 2 * PAGE_SIZE),
                Avail(20 * PAGE_SIZE + 1, PAGE_SIZE - 2) >>)

\* The memory maps a caller may hand to initialize.
MemoryMaps == Platforms \cup { Adjacent }

\* The bitmap storage a direct caller supplies: one word per 32 pages.
DirectBitmap(p) ==
    [addr |-> p.bitmap_addr,
     len |-> (((p.memory_end - p.memory_start) \div PAGE_SIZE) + 31) \div 32]

----------------------------------------------------------------------------
(* The text console (drivers/video/vgacon.rs) *)

BLANK == 0
VGA_INDEX_MARK == 1328
VGACON_C == 80
Visual == 57430

\* A usize that may exceed the small values of the console's fields is kept
\* as the pair of its 16-bit halves.
HALF == 65536

Wide(hi, lo) == [hi |-> hi, lo |-> lo]

\* The usize of value n, for 0 <= n < 2^31.
ToWide(n) == Wide(n \div HALF, n % HALF)

usize_MAX == Wide(HALF - 1, HALF - 1)

WideLeq(a, b) == a.hi < b.hi \/ (a.hi = b.hi /\ a.lo <= b.lo)

\* a * c for a factor c below 2^15: the wrapped product and whether the
\* true product passed 2^32.
WideMul(a, c) ==
    LET lo == a.lo * c
        hi == a.hi * c + lo \div HALF
    IN  [overflow |-> hi >= HALF, val |-> Wide(hi % HALF, lo % HALF)]

\* n + d for a small n: the wrapped sum and whether the true sum passed 2^32.
WideAdd(n, d) ==
    LET lo == (n % HALF) + d.lo
        hi == (n \div HALF) + d.hi + lo \div HALF
    IN  [overflow |-> hi >= HALF, val |-> Wide(hi % HALF, lo % HALF)]

saturating_add(n, d) ==
    IF WideAdd(n, d).overflow THEN usize_MAX ELSE WideAdd(n, d).val

\* w.saturating_sub(n) for a small n.
saturating_sub_small(w, n) ==
    IF WideLeq(w, ToWide(n)) THEN ToWide(0)
    ELSE LET lo == w.lo - (n % HALF)
             borrow == IF lo < 0 THEN 1 ELSE 0
         IN  Wide(w.hi - (n \div HALF) - borrow, lo + borrow * HALF)

\* n.saturating_sub(d) for a small n: a small value.
saturating_sub(n, d) ==
    IF WideLeq(ToWide(n), d) THEN 0 ELSE n - (d.hi * HALF + d.lo)

\* cmp::min(w, n) for a small n: a small value.
MinSmall(w, n) ==
    IF WideLeq(w, ToWide(n)) THEN w.hi * HALF + w.lo ELSE n

\* The colours a console is built with or a character is written in.
White == 15
Black == 0
Yellow == 14

\* The console machine: the fields of VgaCon, the video memory as the words
\* stored so far (by offset from VGA_VRAM_BASE), the cursor registers of
\* the CRT controller, the build's overflow checking and the kernel's fate.
VgaCon_new(R, C, A, id, horizontal_offset, vertical_offset, foreground_color, background_color, checks) ==
    [vc_num              |-> id,
     vc_voffset          |-> vertical_offset,
     vc_hoffset          |-> horizontal_offset,
     vc_index            |-> C * (R - 1),
     vc_screen_size      |-> R * C,
     vc_foreground_color |-> foreground_color,
     vc_background_color |-> background_color,
     vc_screenbuf        |-> [i \in 0 .. (R * C * A - 1) |-> BLANK],
     vc_screenbuf_size   |-> R * C * A,
     vc_visible_origin   |-> C * R * (A - 1),
     vc_origin           |-> C * R * (A - 1),
     vc_rows             |-> R,
     vc_cols             |-> C,
     vram                |-> << >>,
     cursor              |-> [lo |-> 0, hi |-> 0],
     checks              |-> checks,
     status              |-> "running"]

\* The offset of cell `index' of the console from VGA_VRAM_BASE.
VramOffset(v, index) ==
    (((index \div v.vc_cols) + v.vc_voffset) * VGACON_C)
        + v.vc_hoffset + (index % v.vc_cols)

_write(v, index, word) ==
    [v EXCEPT !.vram = [x \in (DOMAIN v.vram) \cup {VramOffset(v, index)} |->
                            IF x = VramOffset(v, index) THEN word ELSE v.vram[x]]]

\* restore: the cells of the screen are copied from the buffer one by one
\* (a read past the end of the buffer panics), then the mark is written
\* over the last cell of the first row and, when the view is scrolled
\* back, the indicator over the cell before it.
restore(v) ==
    LET cells == v.vc_rows * v.vc_cols
        inside == v.vc_visible_origin + cells <= v.vc_screenbuf_size
        copied == IF inside THEN cells
                  ELSE IF v.vc_screenbuf_size > v.vc_visible_origin
                  THEN v.vc_screenbuf_size - v.vc_visible_origin
                  ELSE 0
        offsets == { VramOffset(v, i) : i \in 0 .. (copied - 1) }
        IndexOf(x) == CHOOSE i \in 0 .. (copied - 1) : VramOffset(v, i) = x
        mark == VramOffset(v, v.vc_cols - 1)
        indicator == VramOffset(v, v.vc_cols - 2)
        shown == v.vc_visible_origin # v.vc_origin
        copy == [x \in (DOMAIN v.vram) \cup offsets |->
                    IF x \in offsets
                    THEN v.vc_screenbuf[v.vc_visible_origin + IndexOf(x)]
                    ELSE v.vram[x]]
    IN  IF ~inside THEN Halt([v EXCEPT !.vram = copy], "panicked")
        ELSE [v EXCEPT !.vram =
                 [x \in (DOMAIN copy) \cup {mark}
                                      \cup (IF shown THEN {indicator} ELSE {}) |->
                     IF shown /\ x = indicator THEN Visual
                     ELSE IF x = mark THEN VGA_INDEX_MARK + v.vc_num
                     ELSE copy[x]]]

\* The screen buffer after copy_within(adjusted_delta.., 0) and the fill of
\* its last adjusted_delta cells.
ShiftedBuffer(v, adjusted_delta) ==
    [i \in 0 .. (v.vc_screenbuf_size - 1) |->
        IF i < v.vc_screenbuf_size - adjusted_delta
        THEN v.vc_screenbuf[i + adjusted_delta]
        ELSE BLANK]

\* An absent line count.
None == [some |-> FALSE, val |-> ToWide(0)]

Some(n) == [some |-> TRUE, val |-> n]

scroll(v, dir, lines) ==
    LET product == WideMul(lines.val, v.vc_cols)
        delta == product.val
    IN  IF product.overflow /\ v.checks THEN Halt(v, "panicked")
        ELSE IF dir = "ScUp" /\ lines.some
        THEN restore([v EXCEPT !.vc_visible_origin =
                                   saturating_sub(v.vc_visible_origin, delta)])
        ELSE IF dir = "ScDown" /\ lines.some
        THEN LET adjusted_delta ==
                     MinSmall(saturating_sub_small(
                                  saturating_add(v.vc_visible_origin, delta),
                                  v.vc_origin),
                              v.vc_screenbuf_size)
                 sum == WideAdd(v.vc_visible_origin, delta)
             IN  IF sum.overflow /\ v.checks THEN Halt(v, "panicked")
                 ELSE restore([v EXCEPT
                         !.vc_visible_origin = MinSmall(sum.val, v.vc_origin),
                         !.vc_screenbuf = ShiftedBuffer(v, adjusted_delta),
                         !.vc_index = v.vc_cols * (v.vc_rows - 1)])
        ELSE IF dir = "GoToBottom"
        THEN restore([v EXCEPT !.vc_visible_origin = v.vc_origin])
        ELSE IF dir = "GoToTop"
        THEN restore([v EXCEPT !.vc_visible_origin = 0])
        ELSE restore(v)

\* pos as u8 and (pos >> 8) as u8, written to the cursor registers.
cursor_update(v) ==
    LET pos == VramOffset(v, v.vc_index)
    IN  [v EXCEPT !.cursor = [lo |-> pos % 256, hi |-> (pos \div 256) % 256]]

\* A colour given with the character, or the console's own.
unwrap_or(colour, default) == IF colour.some THEN colour.c ELSE default

NoColour == [some |-> FALSE, c |-> 0]

cputc(v, c, foreground, background) ==
    LET bg_color == unwrap_or(background, v.vc_background_color) % 16
        fg_color == unwrap_or(foreground, v.vc_foreground_color) % 16
        word == c + (bg_color * 4096) + (fg_color * 256)
        \* The store into the buffer and the screen, and the cursor.
        Store(v2) ==
            IF ~Running(v2) THEN v2
            ELSE IF v2.vc_index + v2.vc_origin >= v2.vc_screenbuf_size
            THEN Halt(v2, "panicked")
            ELSE cursor_update(
                     [_write([v2 EXCEPT !.vc_screenbuf[v2.vc_index + v2.vc_origin] = word],
                             v2.vc_index, word)
                        EXCEPT !.vc_index = v2.vc_index + 1])
        \* The scroll by one line when the last row is full.
        Line(v1) ==
            IF Running(v1) /\ v1.vc_index = v1.vc_screen_size
            THEN CHOOSE r \in { Store(x) :
                                 x \in { scroll(v1, "ScDown", Some(ToWide(1))) } } :
                     TRUE
            ELSE Store(v1)
    IN  IF v.vc_visible_origin # v.vc_origin
        THEN CHOOSE r \in { Line(x) : x \in { scroll(v, "GoToBottom", None) } } :
                 TRUE
        ELSE Line(v)

putc(v, c) == cputc(v, c, NoColour, NoColour)

\* The bytes of a string, one after the other.
RECURSIVE cputstr(_, _, _, _)
cputstr(v, str, foreground, background) ==
    IF str = << >> \/ ~Running(v) THEN v
    ELSE LET byte == Head(str)
             Rest(v1) == cputstr(v1, Tail(str), foreground, background)
             \* One byte, then the rest: each statement runs once.
             after == IF byte = 10 THEN scroll(v, "ScDown", Some(ToWide(1)))
                      ELSE IF byte >= 32 /\ byte <= 126
                      THEN cputc(v, byte, foreground, background)
                      ELSE cputc(v, 254, NoColour, NoColour)
         IN  CHOOSE r \in { Rest(x) : x \in { after } } : TRUE

putstr(v, str) == cputstr(v, str, NoColour, NoColour)

----------------------------------------------------------------------------
(* State *)

VARIABLES
    boot,             \* the boot configuration, the build (overflow checks), the budget
    free_lists,       \* BuddyAllocator.free_lists
    total_memory,     \* BuddyAllocator.total_memory
    memory_start,     \* BuddyAllocator.memory_start
    memory_end,       \* BuddyAllocator.memory_end
    initialized,      \* BuddyAllocator.initialized
    allocated_pages,  \* BuddyAllocator.allocated_pages: the slice (addr, len)
    allocated_count,  \* BuddyAllocator.allocated_count
    total_pages,      \* BuddyAllocator.total_pages
    ram,              \* physical memory: links and bitmap words
    status,           \* "running", "panicked", "hung" or "wild"
    once,             \* state of PHYSICAL_MEMORY_ALLOCATOR: Incomplete, Complete
    live,             \* bag of the blocks handed out and not yet given back
    ops,              \* number of blocks handed out or taken back so far
    last,             \* the last call and what it returned
    pc,               \* per caller: where its allocate call stands
    frame,            \* per caller: the locals of its allocate call
    overlapped,       \* some step ran while another caller's call was open
    walk,             \* initialize in steps: 0 outside the call, k before entry k
    vga,              \* the console: the VgaCon fields, video memory, cursor
    vlast,            \* the last console call
    vcalls            \* number of console calls so far

vars == << boot, free_lists, total_memory, memory_start, memory_end,
           initialized, allocated_pages, allocated_count, total_pages,
           ram, status, once, live, ops, last, pc, frame, overlapped,
           walk, vga, vlast, vcalls >>

\* The variables of the console, and those of the allocator and its callers.
console == << vga, vlast, vcalls >>

kmem == << boot, free_lists, total_memory, memory_start, memory_end,
           initialized, allocated_pages, allocated_count, total_pages,
           ram, status, once, live, ops, last, pc, frame, overlapped,
           walk >>

\* The callers that may run allocate step by step, and their variables.
Threads == { 1, 2 }

callers == << pc, frame, overlapped, walk >>

\* The machine record of the current state.
Self ==
    [free_lists      |-> free_lists,
     total_memory    |-> total_memory,
     memory_start    |-> memory_start,
     memory_end      |-> memory_end,
     initialized     |-> initialized,
     allocated_pages |-> allocated_pages,
     allocated_count |-> allocated_count,
     total_pages     |-> total_pages,
     ram             |-> ram,
     status          |-> status,
     checks          |-> boot.checks]

\* The addresses linked from `current' on.
RECURSIVE Linked(_, _, _)
Linked(mem, current, seen) ==
    IF current = NULL \/ current = UNKNOWN \/ current \in seen THEN seen
    ELSE Linked(mem, LoadPtr(mem, current), seen \cup {current})

\* The words the allocator can still reach: the bitmap words and the links
\* of the blocks reachable from a list head.  A link word that no list
\* reaches any more is dead (it is stored again before it is read) and is
\* dropped from `ram' when a call returns, so that two states differ only
\* in memory the allocator can observe.
LiveWords(m) ==
    { BitmapWordAddr(m, w) : w \in 0 .. (m.allocated_pages.len - 1) }
        \cup UNION { Linked(m.ram, m.free_lists[o], {}) : o \in Orders }

CommitKeeping(m, held) ==
    /\ free_lists' = m.free_lists
    /\ total_memory' = m.total_memory
    /\ memory_start' = m.memory_start
    /\ memory_end' = m.memory_end
    /\ initialized' = m.initialized
    /\ allocated_pages' = m.allocated_pages
    /\ allocated_count' = m.allocated_count
    /\ total_pages' = m.total_pages
    /\ ram' = [a \in (DOMAIN m.ram) \cap (LiveWords(m) \cup held) |-> m.ram[a]]
    /\ status' = m.status

Commit(m) == CommitKeeping(m, {})

Call(op, result) == [op |-> op, result |-> result]

Block(addr, order) == [addr |-> addr, order |-> order]

\* An allocator object exists: built by the caller, or installed globally.
HasAllocator == boot.kind = "direct" \/ once = "Complete"

\* The locals of find_free_block in a call, and their value between calls.
Frame(order, current_order, block) ==
    [order |-> order, current_order |-> current_order, block |-> block]

NoFrame == Frame(0, 0, NULL)

\* The console of the runs that are about the allocator: built, never used.
IdleConsole == VgaCon_new(1, 2, 1, 0, 0, 0, White, Black, FALSE)

\* The state after construction on one of the platforms, with a budget of
\* max_ops calls that hand out a block or take one back.
Boot(platforms, max_ops) ==
    \E p \in platforms, checks \in BOOLEAN :
        /\ boot = [name |-> p.name, kind |-> p.kind, entries |-> p.entries,
                   checks |-> checks, max_ops |-> max_ops]
        /\ LET m == IF p.kind = "direct"
                    THEN new(p.memory_start, p.memory_end, DirectBitmap(p),
                             << >>, checks)
                    ELSE new(0, 0, [addr |-> 0, len |-> 0], << >>, checks)
           IN  /\ free_lists = m.free_lists
               /\ total_memory = m.total_memory
               /\ memory_start = m.memory_start
               /\ memory_end = m.memory_end
               /\ initialized = m.initialized
               /\ allocated_pages = m.allocated_pages
               /\ allocated_count = m.allocated_count
               /\ total_pages = m.total_pages
               /\ ram = m.ram
               /\ status = m.status
        /\ once = "Incomplete"
        /\ live = EmptyBag
        /\ ops = 0
        /\ last = Call("new", "none")
        /\ pc = [t \in Threads |-> "idle"]
        /\ frame = [t \in Threads |-> NoFrame]
        /\ overlapped = FALSE
        /\ walk = 0
        /\ vga = IdleConsole
        /\ vlast = "new"
        /\ vcalls = 0

Init == Boot(Platforms, MaxOps)

\* The kernel's own memory map, with the longer budget.
InitDeep == Boot({ Kernel }, DeepOps)

----------------------------------------------------------------------------
(* Actions *)

\* BuddyAllocator::initialize: the first call gets the boot memory map, a
\* later call any map.
Initialize ==
    /\ status = "running"
    /\ HasAllocator
    /\ \E p \in MemoryMaps :
          /\ ~initialized => p.name = boot.name
          /\ Commit(initialize(Self, p.entries))
          /\ last' = Call("initialize", "none")
    /\ UNCHANGED << boot, once, live, ops >>
    /\ UNCHANGED callers
    /\ UNCHANGED console

\* The module-level initialize: builds an allocator over the boot memory
\* map, initializes it (which writes the bitmap words and the links into
\* physical memory) and offers it to PHYSICAL_MEMORY_ALLOCATOR; set keeps
\* the allocator installed first and drops a later one.
KmemInitialize ==
    /\ status = "running"
    /\ boot.kind = "kernel"
    /\ AvailableEntries(boot.entries) # << >>
    /\ LET m == kmem_build(boot.entries, ram, boot.checks)
           installed == OnceLock_set(once)
       IN  IF Running(m) /\ installed.ok
           THEN Commit(m) /\ once' = installed.state
           ELSE /\ Commit([Self EXCEPT !.ram = m.ram, !.status = m.status])
                /\ once' = once
    /\ last' = Call("kmem_initialize", "none")
    /\ UNCHANGED << boot, live, ops >>
    /\ UNCHANGED callers
    /\ UNCHANGED console

Allocate(order) ==
    /\ status = "running"
    /\ HasAllocator
    /\ LET r == allocate(Self, order)
       IN  /\ r.result = "Ok" => BagCardinality(live) < MaxLive /\ ops < boot.max_ops
           /\ Commit(r.m)
           /\ live' = IF r.result = "Ok"
                      THEN live (+) SetToBag({Block(r.addr, order)})
                      ELSE live
           /\ ops' = IF r.result = "Ok" THEN ops + 1 ELSE ops
           /\ last' = Call("allocate", r.result)
    /\ UNCHANGED << boot, once >>
    /\ UNCHANGED callers
    /\ UNCHANGED console

\* free of a block the caller holds, with the order it was allocated with.
Free(b) ==
    /\ status = "running"
    /\ HasAllocator
    /\ BagIn(b, live)
    /\ ops < boot.max_ops
    /\ Commit(free(Self, b.addr, b.order))
    /\ live' = live (-) SetToBag({b})
    /\ ops' = ops + 1
    /\ last' = Call("free", "none")
    /\ UNCHANGED << boot, once >>
    /\ UNCHANGED callers
    /\ UNCHANGED console

\* The requests free turns away: before initialize, with an order above
\* MAX_ORDER, or with an address that is no multiple of the block size.
Dropped(addr, order) ==
    \/ ~initialized
    \/ order > MAX_ORDER
    \/ addr % order_to_size(order) # 0

\* free with a request of that kind; the caller keeps what it holds.
FreeDropped(addr, order) ==
    /\ status = "running"
    /\ HasAllocator
    /\ Dropped(addr, order)
    /\ Commit(free(Self, addr, order))
    /\ last' = Call("free", "dropped")
    /\ UNCHANGED << boot, once, live, ops >>
    /\ UNCHANGED callers
    /\ UNCHANGED console

\* allocate_pages: a call on the global instance.
AllocatePages(count) ==
    /\ status = "running"
    /\ LET r == allocate_pages(Self, once, count)
       IN  /\ r.result = "Ok" => BagCardinality(live) < MaxLive /\ ops < boot.max_ops
           /\ Commit(r.m)
           /\ live' = IF r.result = "Ok"
                      THEN live (+) SetToBag({Block(r.addr,
                                  pages_order_loop(count, 0, 1).order)})
                      ELSE live
           /\ ops' = IF r.result = "Ok" THEN ops + 1 ELSE ops
           /\ last' = Call("allocate_pages", r.result)
    /\ UNCHANGED << boot, once >>
    /\ UNCHANGED callers
    /\ UNCHANGED console

\* free_pages of a block the caller got from the global instance, with a
\* count that rounds up to the size the block was allocated with.
FreePages(b, count) ==
    /\ status = "running"
    /\ boot.kind = "kernel"
    /\ BagIn(b, live)
    /\ ops < boot.max_ops
    /\ pages_order_loop(count, 0, 1) = [ok |-> TRUE, order |-> b.order]
    /\ Commit(free_pages(Self, once, b.addr, count))
    /\ live' = live (-) SetToBag({b})
    /\ ops' = ops + 1
    /\ last' = Call("free_pages", "none")
    /\ UNCHANGED << boot, once >>
    /\ UNCHANGED callers
    /\ UNCHANGED console

\* free_pages with a count of 0 or above 2^MAX_ORDER.
FreePagesDropped(addr, count) ==
    /\ status = "running"
    /\ count = 0 \/ ~pages_order_loop(count, 0, 1).ok
    /\ Commit(free_pages(Self, once, addr, count))
    /\ last' = Call("free_pages", "dropped")
    /\ UNCHANGED << boot, once, live, ops >>
    /\ UNCHANGED callers
    /\ UNCHANGED console

MemoryStats ==
    /\ status = "running"
    /\ \E r \in memory_stats(Self, once) :
          /\ Commit(r.m)
          /\ last' = Call("memory_stats", r.result)
    /\ UNCHANGED << boot, once, live, ops >>
    /\ UNCHANGED callers
    /\ UNCHANGED console

Next ==
    \/ Initialize
    \/ KmemInitialize
    \/ \E order \in RequestOrders : Allocate(order)
    \/ \E b \in BagToSet(live) : Free(b)
    \/ \E addr \in DroppedAddrs, order \in RequestOrders : FreeDropped(addr, order)
    \/ \E count \in RequestCounts : AllocatePages(count)
    \/ \E b \in BagToSet(live), count \in RequestCounts : FreePages(b, count)
    \/ \E addr \in DroppedAddrs, count \in RequestCounts : FreePagesDropped(addr, count)
    \/ MemoryStats

Spec == Init /\ [][Next]_vars

SpecDeep == InitDeep /\ [][Next]_vars

\* The allocator on a memory map with adjacent Available entries (and the
\* kernel's bootstrap beside it).
InitAdjacent == Boot({ Adjacent, Kernel }, MaxOps)

SpecAdjacent == InitAdjacent /\ [][Next]_vars

----------------------------------------------------------------------------
(* allocate, step by step, from two callers *)

\* BuddyAllocator holds no lock, and OnceLock::get hands a mutable reference
\* to every caller.  A caller runs allocate in three steps: it looks for a
\* list with a head and loads the head; it stores the head's link as the new
\* head; it splits, marks the pages and returns.  The other caller may run
\* between two steps.

InFlight(t) == pc[t] # "idle"

Quiet == \A t \in Threads : ~InFlight(t)

\* The blocks the open calls have loaded: their link words are still read.
Held(frames, pcs) == { frames[t].block : t \in { u \in Threads : pcs[u] # "idle" } }

\* The orders the two callers ask for.
ThreadOrders == { 0, 1 }

\* The first order from current_order up whose list has a head, or
\* MAX_ORDER + 1.
RECURSIVE FirstHead(_, _)
FirstHead(m, current_order) ==
    IF current_order <= MAX_ORDER /\ m.free_lists[current_order] = NULL
    THEN FirstHead(m, current_order + 1)
    ELSE current_order

\* let block = self.free_lists[current_order]
AllocateLoad(t, order) ==
    /\ status = "running"
    /\ HasAllocator
    /\ initialized
    /\ order <= MAX_ORDER
    /\ ~InFlight(t)
    /\ ops < boot.max_ops
    /\ BagCardinality(live) + Cardinality({ u \in Threads : InFlight(u) }) < MaxLive
    /\ LET current_order == FirstHead(Self, order)
       IN  /\ current_order <= MAX_ORDER
           /\ free_lists[current_order] # UNKNOWN
           /\ frame' = [frame EXCEPT ![t] =
                            Frame(order, current_order, free_lists[current_order])]
    /\ pc' = [pc EXCEPT ![t] = "loaded"]
    /\ overlapped' = (overlapped \/ ~Quiet)
    /\ UNCHANGED walk
    /\ CommitKeeping(Self, Held(frame', pc'))
    /\ UNCHANGED << boot, once, live, ops, last >>
    /\ UNCHANGED console

\* self.free_lists[current_order] = (*block).next
AllocateUnlink(t) ==
    /\ status = "running"
    /\ pc[t] = "loaded"
    /\ pc' = [pc EXCEPT ![t] = "unlinked"]
    /\ overlapped' = (overlapped \/ \E u \in Threads \ {t} : InFlight(u))
    /\ UNCHANGED walk
    /\ CommitKeeping([Self EXCEPT !.free_lists[frame[t].current_order] =
                                      LoadPtr(ram, frame[t].block)],
                     Held(frame, pc'))
    /\ UNCHANGED << boot, once, live, ops, last, frame >>
    /\ UNCHANGED console

\* The split loop, mark_pages_as_allocated and the return of Ok(block).
AllocateReturn(t) ==
    /\ status = "running"
    /\ pc[t] = "unlinked"
    /\ pc' = [pc EXCEPT ![t] = "idle"]
    /\ frame' = [frame EXCEPT ![t] = NoFrame]
    /\ overlapped' = (overlapped \/ \E u \in Threads \ {t} : InFlight(u))
    /\ UNCHANGED walk
    /\ LET f == frame[t]
           m1 == SplitDown(Self, f.block, f.current_order, f.order)
           pi == PageIndex(m1, f.block)
           done == Running(m1) /\ ~pi.panic
       IN  /\ CommitKeeping(IF ~Running(m1) THEN m1
                            ELSE IF pi.panic THEN Halt(m1, "panicked")
                            ELSE mark_pages_as_allocated(m1, pi.idx, 2 ^ f.order),
                            Held(frame', pc'))
           /\ live' = IF done THEN live (+) SetToBag({Block(f.block, f.order)})
                      ELSE live
           /\ ops' = IF done THEN ops + 1 ELSE ops
           /\ last' = Call("allocate", IF done THEN "Ok" ELSE "none")
    /\ UNCHANGED << boot, once >>
    /\ UNCHANGED console

\* initialize and free as whole calls, between the calls of the callers.
QuietInitialize == Quiet /\ Initialize

QuietFree(b) == Quiet /\ Free(b)

NextConc ==
    \/ QuietInitialize
    \/ \E b \in BagToSet(live) : QuietFree(b)
    \/ \E t \in Threads, order \in ThreadOrders : AllocateLoad(t, order)
    \/ \E t \in Threads : AllocateUnlink(t)
    \/ \E t \in Threads : AllocateReturn(t)

SpecConc == Init /\ [][NextConc]_vars

----------------------------------------------------------------------------
(* initialize in steps: the reset, one memory-map entry at a time, and the   *)
(* store of the flag, with allocate calls observed in between.              *)

\* The reset with the flag stored first.
initialize_reset_flag_first(m) ==
    [ResetBitmap([m EXCEPT !.free_lists = [o \in Orders |-> NULL]])
        EXCEPT !.initialized = TRUE]

\* The free lists cleared and the bitmap set to all ones.
initialize_reset(m) ==
    ResetBitmap([m EXCEPT !.free_lists = [o \in Orders |-> NULL]])

InitializeBegin ==
    /\ status = "running"
    /\ HasAllocator
    /\ walk = 0
    /\ IF initialized
       THEN Commit(Self) /\ walk' = 0
       ELSE Commit(initialize_reset(Self)) /\ walk' = 1
    /\ last' = Call("initialize", "none")
    /\ UNCHANGED << boot, once, live, ops, pc, frame, overlapped >>
    /\ UNCHANGED console

InitializeEntry ==
    /\ status = "running"
    /\ walk \in 1 .. Len(boot.entries)
    /\ LET entry == boot.entries[walk]
       IN  Commit(IF entry.entry_type = "Available"
                  THEN ProcessEntry(Self, entry)
                  ELSE Self)
    /\ walk' = walk + 1
    /\ UNCHANGED << boot, once, live, ops, last, pc, frame, overlapped >>
    /\ UNCHANGED console

InitializeEnd ==
    /\ status = "running"
    /\ walk = Len(boot.entries) + 1
    /\ Commit([Self EXCEPT !.initialized = TRUE])
    /\ walk' = 0
    /\ UNCHANGED << boot, once, live, ops, last, pc, frame, overlapped >>
    /\ UNCHANGED console

NextSteps ==
    \/ InitializeBegin
    \/ InitializeEntry
    \/ InitializeEnd
    \/ \E order \in RequestOrders : Allocate(order)
    \/ \E b \in BagToSet(live) : Free(b)

\* The allocators a caller builds itself.
InitSteps == Boot(MemoryMaps \ { Kernel }, MaxOps)

SpecSteps == InitSteps /\ [][NextSteps]_vars

----------------------------------------------------------------------------
(* The console's calls *)

\* The screen of the consoles: rows and columns.
ScreenRows == 2

ScreenCols == 3

\* Number of console calls.
MaxCalls == 4

\* The consoles: one without scrollback (A = 1), one with a screen of
\* scrollback, one two columns wide with two screens of scrollback at
\* column 20, and one that writes black on yellow.
Console(R, C, A, id, horizontal_offset, foreground_color, background_color) ==
    [R |-> R, C |-> C, A |-> A, id |-> id, hoffset |-> horizontal_offset,
     fg |-> foreground_color, bg |-> background_color]

Consoles ==
    { Console(ScreenRows, ScreenCols, 1, 2, 0, White, Black),
      Console(ScreenRows, ScreenCols, 2, 1, 0, White, Black),
      Console(ScreenRows, ScreenCols - 1, 3, 1, 20, White, Black),
      Console(ScreenRows, ScreenCols, 2, 1, 0, Black, Yellow) }

\* The greatest line count whose product with cols fits a usize.
MaxLines(cols) ==
    LET hi == (HALF - 1) \div cols
        rem == (HALF - 1) % cols
    IN  Wide(hi, (rem * HALF + HALF - 1) \div cols)

\* The line counts of the scroll calls: none, a few lines, more lines than
\* the buffer holds, and the two greatest.
ScrollLines(v) ==
    { None, Some(usize_MAX), Some(MaxLines(v.vc_cols)) }
        \cup { Some(ToWide(n)) :
                 n \in { 0, 1, 2, (v.vc_screenbuf_size \div v.vc_cols) + 1 } }

ScrollDirs == { "ScUp", "ScDown", "GoToBottom", "GoToTop" }

\* The bytes putc is called with: '>' and 'V'.
Chars == { 62, 86 }

\* The strings putstr is called with: ">\n", "V>" and a byte that is not
\* printable.
Strings == { << 62, 10 >>, << 86, 62 >>, << 200 >> }

\* No allocator is looked at in the runs that are about the console.
NoAllocator ==
    /\ boot = [name |-> "console", kind |-> "console", entries |-> << >>,
               checks |-> FALSE, max_ops |-> 0]
    /\ free_lists = [o \in Orders |-> NULL]
    /\ total_memory = 0
    /\ memory_start = 0
    /\ memory_end = 0
    /\ initialized = FALSE
    /\ allocated_pages = [addr |-> 0, len |-> 0]
    /\ allocated_count = 0
    /\ total_pages = 0
    /\ ram = << >>
    /\ status = "running"
    /\ once = "Incomplete"
    /\ live = EmptyBag
    /\ ops = 0
    /\ last = Call("new", "none")
    /\ pc = [t \in Threads |-> "idle"]
    /\ frame = [t \in Threads |-> NoFrame]
    /\ overlapped = FALSE
    /\ walk = 0

InitVga ==
    /\ NoAllocator
    /\ \E c \in Consoles, checks \in BOOLEAN :
          vga = VgaCon_new(c.R, c.C, c.A, c.id, c.hoffset, 0, c.fg, c.bg, checks)
    /\ vlast = "new"
    /\ vcalls = 0

VgaPutc(c) ==
    /\ Running(vga)
    /\ vcalls < MaxCalls
    /\ vga' = putc(vga, c)
    /\ vlast' = "putc"
    /\ vcalls' = vcalls + 1
    /\ UNCHANGED kmem

VgaPutstr(str) ==
    /\ Running(vga)
    /\ vcalls < MaxCalls
    /\ vga' = putstr(vga, str)
    /\ vlast' = "putstr"
    /\ vcalls' = vcalls + 1
    /\ UNCHANGED kmem

VgaScroll(dir, lines) ==
    /\ Running(vga)
    /\ vcalls < MaxCalls
    /\ vga' = scroll(vga, dir, lines)
    /\ vlast' = "scroll"
    /\ vcalls' = vcalls + 1
    /\ UNCHANGED kmem

NextVga ==
    \/ \E c \in Chars : VgaPutc(c)
    \/ \E str \in Strings : VgaPutstr(str)
    \/ \E dir \in ScrollDirs, lines \in ScrollLines(vga) : VgaScroll(dir, lines)

SpecVga == InitVga /\ [][NextVga]_vars

----------------------------------------------------------------------------
(* What the claims speak about *)

\* The allocator serves calls: it exists, bootstrap is done, the kernel runs.
Serving == HasAllocator /\ initialized /\ status = "running"

\* The blocks of the order-o free list, as the code walks it from the head.
FreeList(m, o) == Linked(m.ram, m.free_lists[o], {})

\* How the walk of a list ends: at the null pointer, at an unknown pointer,
\* or never (a block is linked twice).
RECURSIVE ListEnd(_, _, _)
ListEnd(mem, current, seen) ==
    IF current = NULL THEN "null"
    ELSE IF current = UNKNOWN THEN "unknown"
    ELSE IF current \in seen THEN "cycle"
    ELSE ListEnd(mem, LoadPtr(mem, current), seen \cup {current})

FreeEntries(m) ==
    UNION { { Block(a, o) : a \in FreeList(m, o) } : o \in Orders }

\* The byte range of a block.
BlockEnd(b) == b.addr + order_to_size(b.order)

Overlap(b1, b2) == b1.addr < BlockEnd(b2) /\ b2.addr < BlockEnd(b1)

\* The page indices below total_pages that lie inside block b.
PagesOf(m, b) ==
    { p \in 0 .. (m.total_pages - 1) :
        /\ b.addr <= m.memory_start + p * PAGE_SIZE
        /\ m.memory_start + p * PAGE_SIZE < BlockEnd(b) }

CoveredPages(m) == UNION { PagesOf(m, b) : b \in FreeEntries(m) }

BitKnown(m, p) == BitmapWordAddr(m, p \div USIZE_BITS) \in DOMAIN m.ram

ZeroPages(m) ==
    { p \in 0 .. (m.total_pages - 1) : BitKnown(m, p) /\ ~BitIsSet(m, p) }

OnePages(m) ==
    { p \in 0 .. (m.total_pages - 1) : BitKnown(m, p) /\ BitIsSet(m, p) }

----------------------------------------------------------------------------
(* Claims *)

\* C1: after initialize and any allocate / matching free calls, the bitmap
\* bit of a page is 0 iff the page lies inside a block on a free list.
C1_BitmapMatchesFreeLists ==
    Serving => ZeroPages(Self) = CoveredPages(Self)

\* C2: the blocks on the free lists are pairwise disjoint and no address is
\* linked into a list twice.
C2_FreeBlocksDisjoint ==
    Serving =>
        /\ \A o \in Orders : ListEnd(ram, free_lists[o], {}) # "cycle"
        /\ \A b1, b2 \in FreeEntries(Self) : b1 # b2 => ~Overlap(b1, b2)

\* C3: every block on the order-O list starts at a multiple of
\* PAGE_SIZE << O and lies inside [memory_start, memory_end).
C3_FreeBlocksAlignedInBounds ==
    Serving =>
        \A b \in FreeEntries(Self) :
            /\ b.addr % order_to_size(b.order) = 0
            /\ memory_start <= b.addr
            /\ BlockEnd(b) <= memory_end

\* C4: every address a successful allocate(order) returned is a multiple of
\* PAGE_SIZE << order.
C4_ReturnedAddressAligned ==
    \A b \in BagToSet(live) : b.addr % order_to_size(b.order) = 0

\* What total_pages(), allocated_pages() and free_pages() report.
Stats(m) == << total_pages_of(m), allocated_pages_of(m), free_pages_of(m) >>

\* C5: for every order up to MAX_ORDER, allocate(order) followed at once by
\* free(result, order) restores the statistics and the set of free pages.
C5_RoundTrip ==
    Serving =>
        \A order \in Orders :
            LET r == allocate(Self, order)
                back == free(r.m, r.addr, order)
            IN  r.result = "Ok" =>
                    /\ Running(back)
                    /\ Stats(back) = Stats(Self)
                    /\ ZeroPages(back) = ZeroPages(Self)
                    /\ CoveredPages(back) = CoveredPages(Self)

\* Two blocks the callers hold are the two halves of one order-(O+1) block.
Buddies(b1, b2) ==
    /\ b1.order = b2.order
    /\ b1.order < MAX_ORDER
    /\ b1.addr % order_to_size(b1.order) = 0
    /\ b2.addr = XorSize(b1.addr, order_to_size(b1.order))

\* C6: freeing both halves of a split block, in either order, leaves one
\* free block of the next order at the lower half's address (or a larger
\* block that contains it) and never both halves on the order-O list.
C6_Coalescing ==
    Serving =>
        \A b1, b2 \in BagToSet(live) :
            Buddies(b1, b2) =>
                LET after == free(free(Self, b1.addr, b1.order), b2.addr, b2.order)
                    lower == IF b1.addr < b2.addr THEN b1.addr ELSE b2.addr
                    parent == Block(lower, b1.order + 1)
                IN  /\ Running(after)
                    /\ \E e \in FreeEntries(after) :
                          /\ e.order >= parent.order
                          /\ e.addr <= parent.addr
                          /\ BlockEnd(parent) <= BlockEnd(e)
                    /\ ~({b1.addr, b2.addr} \subseteq FreeList(after, b1.order))

\* C7: allocated_pages() + free_pages() = total_pages() after every call.
\* A reported value is the stored 32-bit value: a negative representative
\* stands for a value of 2^31 or more.
C7_Conservation ==
    (HasAllocator /\ status = "running") =>
        LET a == allocated_pages_of(Self)
            f == free_pages_of(Self)
        IN  /\ ~f.panic
            /\ a >= 0
            /\ f.val >= 0
            /\ a + f.val = total_pages_of(Self)

\* C8: the reported allocated count is the number of pages whose bit is 1,
\* the reported free count the number of pages whose bit is 0.
C8_CountsMatchBitmap ==
    Serving =>
        /\ allocated_pages_of(Self) = Cardinality(OnePages(Self))
        /\ ~free_pages_of(Self).panic
        /\ free_pages_of(Self).val = Cardinality(ZeroPages(Self))

\* Only allocate(0) has handed out blocks, and none was given back.
OnlyAllocateZero ==
    /\ \A b \in BagToSet(live) : b.order = 0
    /\ ops = BagCardinality(live)

\* C9: once allocate(0), called repeatedly, returns OutOfMemory, free_pages()
\* is the number of pages still on the free lists, and a further allocate(0)
\* returns OutOfMemory again and changes nothing.
C9_ExhaustionStable ==
    (Serving /\ OnlyAllocateZero /\ allocate(Self, 0).result = "OutOfMemory") =>
        /\ ~free_pages_of(Self).panic
        /\ free_pages_of(Self).val = Cardinality(CoveredPages(Self))
        /\ allocate(Self, 0).m = Self

\* C10: a call of BuddyAllocator::initialize on an initialized allocator,
\* with any memory map, changes nothing.
C10_InitializeIdempotent ==
    [][(Initialize /\ initialized) =>
          UNCHANGED << free_lists, total_memory, memory_start, memory_end,
                       initialized, allocated_pages, allocated_count,
                       total_pages, ram, status >>]_vars

\* A second initialize has run after blocks were handed out.
C10_Witness ==
    /\ last.op = "initialize"
    /\ initialized
    /\ live # EmptyBag

\* The block lies in the page-aligned interior of an Available entry of the
\* memory map (an entry at or above 4 GiB holds no 32-bit address).
InAvailableInterior(b) ==
    \E i \in 1 .. Len(boot.entries) :
        LET e == boot.entries[i]
        IN  /\ e.entry_type = "Available"
            /\ e.addr.hi = 0
            /\ e.len.hi = 0
            /\ align_up(e.addr.lo, PAGE_SIZE) <= b.addr
            /\ BlockEnd(b) <= align_down(e.addr.lo + e.len.lo, PAGE_SIZE)

\* C11: every block the callers hold lies in the page-aligned interior of an
\* Available entry; with the single region [0x1001, 0x3000) the first
\* allocate(0) returns 0x2000.
C11_IssuedInsideAvailable ==
    /\ \A b \in BagToSet(live) : InAvailableInterior(b)
    /\ (boot.name = "ScenarioB" /\ Serving /\ ops = 0) =>
           LET r == allocate(Self, 0)
           IN  r.result = "Ok" /\ r.addr = 2 * PAGE_SIZE

\* C12: with the region [0x0, 0x2000) and bounds [0x0, 0x2000), initialize
\* leaves one free block, of order 1 at 0x0; allocate(0) returns 0x0 and
\* leaves one free block, of order 0 at 0x1000; the next allocate(0) returns
\* 0x1000, the third OutOfMemory; free(0x1000, 0) and free(0x0, 0) then
\* leave one free block, of order 1 at 0x0.
C12_ScenarioA ==
    (boot.name = "ScenarioA" /\ Serving /\ ops = 0) =>
        LET r1 == allocate(Self, 0)
            r2 == allocate(r1.m, 0)
            r3 == allocate(r2.m, 0)
            f1 == free(r3.m, PAGE_SIZE, 0)
            f2 == free(f1, 0, 0)
        IN  /\ FreeEntries(Self) = { Block(0, 1) }
            /\ r1.result = "Ok" /\ r1.addr = 0
            /\ FreeEntries(r1.m) = { Block(PAGE_SIZE, 0) }
            /\ r2.result = "Ok" /\ r2.addr = PAGE_SIZE
            /\ r3.result = "OutOfMemory"
            /\ FreeEntries(f2) = { Block(0, 1) }

\* C13: before bootstrap has completed, allocate returns NotInitialized for
\* every order, allocate_pages returns NotInitialized for every count, and
\* memory_stats returns None without a read of the uninitialized instance.
C13_NotInitializedBeforeBootstrap ==
    /\ (HasAllocator /\ ~initialized /\ status = "running") =>
           \A order \in RequestOrders :
               allocate(Self, order) = Ret(Self, "NotInitialized", NULL)
    /\ (once # "Complete" /\ status = "running") =>
           /\ \A count \in RequestCounts :
                  allocate_pages(Self, once, count)
                      = Ret(Self, "NotInitialized", NULL)
           /\ memory_stats(Self, once) = { Ret(Self, "None", NULL) }

\* The smallest order whose block holds `count' pages.
MinOrder(count) ==
    CHOOSE o \in Orders :
        /\ 2 ^ o >= count
        /\ \A p \in 0 .. (o - 1) : 2 ^ p < count

\* The global instance is installed and serves calls.
Bootstrapped == once = "Complete" /\ initialized /\ status = "running"

\* C14: after bootstrap, allocate_pages(count) returns InvalidSize exactly
\* when count = 0 or count > 2^MAX_ORDER and otherwise does what
\* allocate(order) does for the smallest order with 2^order >= count;
\* allocate(order) returns InvalidSize exactly when order > MAX_ORDER.
C14_InvalidSizeAndDelegation ==
    /\ Bootstrapped =>
           \A count \in RequestCounts :
               allocate_pages(Self, once, count)
                   = IF count = 0 \/ count > 2 ^ MAX_ORDER
                     THEN Ret(Self, "InvalidSize", NULL)
                     ELSE allocate(Self, MinOrder(count))
    /\ Serving =>
           \A order \in RequestOrders :
               (allocate(Self, order).result = "InvalidSize")
                   <=> (order > MAX_ORDER)

\* allocate_pages has just turned a count away on the installed allocator
\* while blocks are handed out.
C14_Witness ==
    /\ Bootstrapped
    /\ last = Call("allocate_pages", "InvalidSize")
    /\ live # EmptyBag

\* The three errors of allocate.
AllocErrors == { "NotInitialized", "InvalidSize", "OutOfMemory" }

\* C15: after bootstrap and for order <= MAX_ORDER, allocate(order) returns
\* OutOfMemory exactly when the free lists of order .. MAX_ORDER are all
\* empty (their heads are null); an allocate that returns an error leaves the allocator and the
\* memory as they were.
C15_OutOfMemoryIffListsEmpty ==
    /\ Serving =>
           \A order \in RequestOrders \cap Orders :
               (allocate(Self, order).result = "OutOfMemory")
                   <=> (\A o \in order .. MAX_ORDER : free_lists[o] = NULL)
    /\ (HasAllocator /\ status = "running") =>
           \A order \in RequestOrders :
               allocate(Self, order).result \in AllocErrors
                   => allocate(Self, order).m = Self

\* allocate has just returned OutOfMemory while smaller blocks are free.
C15_Witness ==
    /\ Serving
    /\ last = Call("allocate", "OutOfMemory")
    /\ FreeEntries(Self) # {}
    /\ live # EmptyBag

\* C16: for a count in 1 .. 2^MAX_ORDER, a successful allocate_pages(count)
\* marks exactly the 2^ceil(log2(count)) pages of the returned block
\* allocated, and free_pages of the returned address with the same count
\* frees exactly those pages and restores the statistics.
C16_RoundedUpRoundTrip ==
    Bootstrapped =>
        \A count \in RequestCounts \cap (1 .. 2 ^ MAX_ORDER) :
            LET r == allocate_pages(Self, once, count)
                b == Block(r.addr, MinOrder(count))
                back == free_pages(r.m, once, r.addr, count)
            IN  r.result = "Ok" =>
                    /\ Cardinality(PagesOf(Self, b)) = 2 ^ MinOrder(count)
                    /\ PagesOf(Self, b) \subseteq ZeroPages(Self)
                    /\ OnePages(r.m) = OnePages(Self) \cup PagesOf(Self, b)
                    /\ allocated_pages_of(r.m)
                           = allocated_pages_of(Self) + 2 ^ MinOrder(count)
                    /\ Running(back)
                    /\ ZeroPages(back) = ZeroPages(Self)
                    /\ Stats(back) = Stats(Self)
                    /\ ~free_pages_of(back).panic

\* The addresses of the free requests looked at: those of DroppedAddrs and
\* those of the blocks the callers hold.
FreeAddrs == DroppedAddrs \cup { b.addr : b \in BagToSet(live) }

\* C17: a free request that is turned away (an address that is no multiple
\* of PAGE_SIZE << order, an order above MAX_ORDER, a call before
\* initialization, a free_pages count of 0 or above 2^MAX_ORDER) leaves the
\* free lists, the bitmap and the counter as they were.
C17_DroppedFreeChangesNothing ==
    status = "running" =>
        /\ HasAllocator =>
               \A addr \in FreeAddrs, order \in RequestOrders :
                   Dropped(addr, order) => free(Self, addr, order) = Self
        /\ \A addr \in FreeAddrs, count \in RequestCounts :
               (count = 0 \/ count > 2 ^ MAX_ORDER)
                   => free_pages(Self, once, addr, count) = Self

\* A misaligned free has just been turned away by an initialized allocator
\* with blocks handed out.
C17_Witness ==
    /\ Serving
    /\ last = Call("free", "dropped")
    /\ live # EmptyBag

\* The byte range of the bitmap storage.
BitmapStart == allocated_pages.addr

BitmapEnd == allocated_pages.addr + WORD_BYTES * allocated_pages.len

\* The block shares a page with the bitmap storage.
HoldsBitmap(b) ==
    /\ align_down(b.addr, PAGE_SIZE) < BitmapEnd
    /\ BitmapStart < align_up(BlockEnd(b), PAGE_SIZE)

\* C18: once the module-level initialize has carved the bitmap storage out
\* of the largest Available entry, no page that holds bitmap words is on a
\* free list or handed out, and no free-list link lies in the storage.
C18_BitmapStorageReserved ==
    Bootstrapped =>
        /\ \A b \in FreeEntries(Self) : ~HoldsBitmap(b)
        /\ \A b \in BagToSet(live) : ~HoldsBitmap(b)
        /\ \A b \in FreeEntries(Self) :
               ~(BitmapStart <= b.addr /\ b.addr < BitmapEnd)

\* Two callers hold the same block address.
SameAddressTwice ==
    \E b1, b2 \in BagToSet(live) :
        b1.addr = b2.addr /\ (b1 # b2 \/ CopiesIn(b1, live) > 1)

\* The bitmap and the free lists disagree about a page: its bit reads free
\* and no free block holds it, or a free block holds it and its bit is set.
TornUpdate == ZeroPages(Self) # CoveredPages(Self)

\* C19: when every operation runs to completion before the next starts, no
\* state is reachable in which the bitmap and the free lists disagree and
\* two callers hold the same block address.
C19_SerializedAccessSafe ==
    (Serving /\ Quiet /\ ~overlapped) => ~(TornUpdate /\ SameAddressTwice)

\* What the interleaved half of C19 describes: a caller has taken a block
\* off its list, the bits of the block still read free, and the other
\* caller is in the middle of its own call.
C19_TornUpdateObservable ==
    \E t \in Threads :
        /\ pc[t] = "unlinked"
        /\ \E u \in Threads \ {t} : InFlight(u)
        /\ LET b == Block(frame[t].block, frame[t].current_order)
           IN  /\ b \notin FreeEntries(Self)
               /\ PagesOf(Self, b) # {}
               /\ PagesOf(Self, b) \subseteq ZeroPages(Self)

\* Two interleaved calls have returned the same block address.
C19_InterleavedSameAddress == overlapped /\ Quiet /\ SameAddressTwice

\* C20: every initialize, allocate and free call terminates: no call is
\* caught in a loop that never ends.
C20_EveryCallTerminates == status # "hung"

\* The word the screen shows in cell `index' of the console (-1: the console
\* has not written the cell).
Shown(v, index) ==
    IF VramOffset(v, index) \in DOMAIN v.vram
    THEN v.vram[VramOffset(v, index)]
    ELSE -1

ScrolledBack(v) == v.vc_visible_origin # v.vc_origin

\* The line counts that reach the bottom from where the view stands.
ReachesBottom(v, lines) ==
    /\ lines.some
    /\ WideLeq(ToWide((v.vc_origin - v.vc_visible_origin + v.vc_cols - 1)
                          \div v.vc_cols),
               lines.val)

\* C21: after every scroll call the last cell of the first row shows
\* VGA_INDEX_MARK + vc_num and the cell before it shows the Visual
\* indicator iff the view is scrolled back; a console without scrollback
\* never shows the indicator after a scroll, and a ScDown that reaches the
\* bottom removes it.
C21_IndicatorAfterScroll ==
    (vlast = "scroll" /\ Running(vga)) =>
        /\ Shown(vga, vga.vc_cols - 1) = VGA_INDEX_MARK + vga.vc_num
        /\ (Shown(vga, vga.vc_cols - 2) = Visual) <=> ScrolledBack(vga)
        /\ vga.vc_screenbuf_size = vga.vc_screen_size =>
               Shown(vga, vga.vc_cols - 2) # Visual
        /\ \A lines \in ScrollLines(vga) :
               ReachesBottom(vga, lines) =>
                   LET down == scroll(vga, "ScDown", lines)
                   IN  /\ Running(down)
                       /\ ~ScrolledBack(down)
                       /\ Shown(down, down.vc_cols - 2) # Visual

\* The line counts whose cell count vc_cols * lines is at least `cells'.
AtLeastCells(v, lines, cells) ==
    /\ lines.some
    /\ WideLeq(ToWide((cells + v.vc_cols - 1) \div v.vc_cols), lines.val)

\* The cell count of a line count that stays within the buffer.
CellsOf(v, lines) == lines.val.lo * v.vc_cols

\* The buffer after its oldest `cells' cells are discarded and its tail is
\* blank-filled.
Discarded(v, cells) ==
    [i \in 0 .. (v.vc_screenbuf_size - 1) |->
        IF i + cells < v.vc_screenbuf_size
        THEN v.vc_screenbuf[i + cells]
        ELSE BLANK]

\* C22: under any sequence of putc, putstr and scroll calls no call panics
\* on a buffer access, vc_visible_origin stays within 0 .. vc_origin, ScUp by
\* any number of lines saturates at the top, ScDown clamps at vc_origin, and
\* a ScDown that overshoots the bottom discards the oldest
\* min(overshoot, buffer size) cells and blank-fills the tail.
C22_ViewWithinBuffer ==
    /\ vga.status # "panicked"
    /\ vga.vc_visible_origin >= 0
    /\ vga.vc_visible_origin <= vga.vc_origin
    /\ Running(vga) =>
          \A lines \in ScrollLines(vga) :
              LET up == scroll(vga, "ScUp", lines)
                  down == scroll(vga, "ScDown", lines)
                  room == vga.vc_origin - vga.vc_visible_origin
              IN  /\ Running(up)
                  /\ Running(down)
                  /\ up.vc_visible_origin =
                         (IF ~lines.some THEN vga.vc_visible_origin
                          ELSE IF AtLeastCells(vga, lines, vga.vc_visible_origin)
                          THEN 0
                          ELSE vga.vc_visible_origin - CellsOf(vga, lines))
                  /\ down.vc_visible_origin =
                         (IF ~lines.some THEN vga.vc_visible_origin
                          ELSE IF AtLeastCells(vga, lines, room)
                          THEN vga.vc_origin
                          ELSE vga.vc_visible_origin + CellsOf(vga, lines))
                  /\ lines.some =>
                         down.vc_screenbuf =
                            (IF AtLeastCells(vga, lines,
                                             room + vga.vc_screenbuf_size)
                             THEN Discarded(vga, vga.vc_screenbuf_size)
                             ELSE IF AtLeastCells(vga, lines, room)
                             THEN Discarded(vga, CellsOf(vga, lines) - room)
                             ELSE vga.vc_screenbuf)

\* C23: no two outstanding allocations overlap: a successful allocate never
\* returns a block that shares a page with a block returned earlier and not
\* yet freed.
C23_OutstandingDisjoint ==
    Serving =>
        \A b1, b2 \in BagToSet(live) :
            /\ CopiesIn(b1, live) = 1
            /\ b1 # b2 => ~Overlap(b1, b2)

\* Block `outer' contains block `inner'.
Contains(outer, inner) ==
    outer.addr <= inner.addr /\ BlockEnd(inner) <= BlockEnd(outer)

\* An aligned block inside the bounds that one caller holds.
Freeable(m, b) ==
    /\ BagIn(b, live)
    /\ CopiesIn(b, live) = 1
    /\ b.order <= MAX_ORDER
    /\ b.addr % order_to_size(b.order) = 0
    /\ b.addr >= m.memory_start
    /\ BlockEnd(b) <= m.memory_end

\* C24: after free(addr, order) of an aligned, in-bounds, allocated block
\* of any order up to MAX_ORDER every page of the block has bit 0 and lies
\* in exactly one free-list entry, and every block that was on a free list
\* before the call is still there or lies in the merged entry, also when
\* the buddy of an order-MAX_ORDER block is free.
C24_FreeKeepsBlocks ==
    Serving =>
        \A b \in { x \in BagToSet(live) : Freeable(Self, x) } :
            LET after == free(Self, b.addr, b.order)
            IN  /\ Running(after)
                /\ \A p \in PagesOf(Self, b) :
                       /\ p \in ZeroPages(after)
                       /\ Cardinality({ e \in FreeEntries(after) :
                                          p \in PagesOf(after, e) }) = 1
                /\ \A e \in FreeEntries(Self) :
                       \/ e \in FreeEntries(after)
                       \/ \E merged \in FreeEntries(after) :
                              Contains(merged, e) /\ Contains(merged, b)

\* The lowest order from `order' up whose list is not empty (MAX_ORDER + 1:
\* none).
RECURSIVE LowestOrder(_, _)
LowestOrder(m, order) ==
    IF order > MAX_ORDER THEN MAX_ORDER + 1
    ELSE IF m.free_lists[order] # NULL THEN order
    ELSE LowestOrder(m, order + 1)

\* C25: a successful allocate(order) takes the head A of the lowest
\* non-empty list O >= order, returns A and leaves exactly one new block
\* A + (PAGE_SIZE << k) on each list k in order .. O - 1; no other
\* free-list entry is added or removed.
C25_HeadOfLowestList ==
    Serving =>
        \A order \in Orders :
            LET r == allocate(Self, order)
                O == LowestOrder(Self, order)
                A == Self.free_lists[O]
            IN  r.result = "Ok" =>
                    /\ O <= MAX_ORDER
                    /\ r.addr = A
                    /\ \A k \in Orders :
                           FreeList(r.m, k) =
                               (FreeList(Self, k) \ (IF k = O THEN { A } ELSE {}))
                                   \cup (IF order <= k /\ k < O
                                         THEN { A + order_to_size(k) }
                                         ELSE {})

\* C26: a successful allocate(order) flips the bitmap bits of exactly the
\* 2^order pages of the returned block from 0 to 1 and raises the allocated
\* count by 2^order; the bit of every other page is unchanged.
C26_AllocateMarksItsPages ==
    Serving =>
        \A order \in RequestOrders \cap Orders :
            LET r == allocate(Self, order)
                pages == PagesOf(Self, Block(r.addr, order))
            IN  r.result = "Ok" =>
                    /\ Running(r.m)
                    /\ Cardinality(pages) = 2 ^ order
                    /\ pages \subseteq ZeroPages(Self)
                    /\ pages \subseteq OnePages(r.m)
                    /\ ZeroPages(r.m) = ZeroPages(Self) \ pages
                    /\ OnePages(r.m) = OnePages(Self) \cup pages
                    /\ r.m.allocated_count = Self.allocated_count + 2 ^ order

\* C27: free memory is always maximally coalesced: after initialize, for
\* any memory map, and after any allocate / free sequence no free list of
\* an order below MAX_ORDER holds both a block and its in-bounds buddy.
C27_MaximallyCoalesced ==
    Serving =>
        \A o \in Orders \ { MAX_ORDER } :
            \A a \in FreeList(Self, o) :
                (/\ a % order_to_size(o) = 0
                 /\ XorSize(a, order_to_size(o)) >= memory_start
                 /\ XorSize(a, order_to_size(o)) + order_to_size(o) <= memory_end)
                    => XorSize(a, order_to_size(o)) \notin FreeList(Self, o)

\* The blocks the walk of one aligned region hands to free_region, in the
\* order of the calls.
RECURSIVE WalkBlocks(_, _)
WalkBlocks(addr, aligned_end) ==
    IF addr + PAGE_SIZE <= aligned_end
    THEN LET size == max_block_size(addr, aligned_end)
         IN  << Block(addr, size_to_order(size)) >>
                 \o WalkBlocks(addr + size, aligned_end)
    ELSE << >>

\* The aligned region of an entry, as initialize computes it.
AlignedRegion(entry) ==
    LET region_start == AsUsize(entry.addr)
        region_end == region_start + AsUsize(entry.len)
    IN  [aligned_start |-> align_up(region_start, PAGE_SIZE),
         aligned_end   |-> align_down(region_end, PAGE_SIZE)]

\* The blocks initialize frees for one entry.
EntryBlocks(entry) ==
    LET region == AlignedRegion(entry)
    IN  IF region.aligned_start >= region.aligned_end THEN << >>
        ELSE WalkBlocks(region.aligned_start, region.aligned_end)

RECURSIVE SumSizes(_, _)
SumSizes(blocks, i) ==
    IF i > Len(blocks) THEN 0
    ELSE order_to_size(blocks[i].order) + SumSizes(blocks, i + 1)

\* The blocks of an entry tile its aligned region with maximal blocks.
TilesExactly(entry) ==
    LET region == AlignedRegion(entry)
        blocks == EntryBlocks(entry)
    IN  /\ region.aligned_start >= region.aligned_end => blocks = << >>
        /\ \A i, j \in DOMAIN blocks :
               i # j => ~Overlap(blocks[i], blocks[j])
        /\ \A i \in DOMAIN blocks :
               LET a == blocks[i].addr
                   k == blocks[i].order
               IN  /\ region.aligned_start <= a
                   /\ a % order_to_size(k) = 0
                   /\ a + order_to_size(k) <= region.aligned_end
                   /\ \/ k = MAX_ORDER
                      \/ a % (2 * order_to_size(k)) # 0
                      \/ a + 2 * order_to_size(k) > region.aligned_end
        /\ region.aligned_start < region.aligned_end =>
               SumSizes(blocks, 1) = region.aligned_end - region.aligned_start

AvailableOf(entries) ==
    { entries[i] : i \in { j \in DOMAIN entries :
                             entries[j].entry_type = "Available" } }

\* The blocks initialize frees for a memory map.
MapBlocks(entries) ==
    UNION { { EntryBlocks(e)[i] : i \in DOMAIN EntryBlocks(e) } :
              e \in AvailableOf(entries) }

\* The state initialize leaves, before any block is handed out.
FreshlyInitialized == Serving /\ ops = 0 /\ live = EmptyBag

C29_NoUnsignedWrap ==
    HasAllocator =>
        /\ allocated_count >= 0
        /\ allocated_count <= total_pages
        /\ status # "panicked"
        /\ Serving => \A b \in FreeEntries(Self) : b.addr >= memory_start

\* C30: the module-level initialize called again after the global
\* allocator has been installed and used changes nothing of the installed
\* allocator: not its bitmap words, not the links stored in free memory,
\* not its counters.
C30_SecondBootstrapNoOp ==
    [][(once = "Complete" /\ last'.op = "kmem_initialize")
          => /\ ram' = ram
             /\ free_lists' = free_lists
             /\ allocated_count' = allocated_count
             /\ total_pages' = total_pages
             /\ initialized' = initialized
             /\ status' = status]_vars

\* Block b lies in the real physical range [addr, addr + len) of entry e,
\* both taken as 64-bit values.
InRealRange(b, e) ==
    /\ e.addr.hi = 0
    /\ e.addr.lo <= b.addr
    /\ e.len.hi > 0 \/ BlockEnd(b) <= e.addr.lo + e.len.lo

\* C31: initialize never inserts a free block outside the real physical
\* range of an Available entry, also for entries whose 64-bit start or end
\* is at or above 2^32: the blocks it frees for an entry lie in that
\* entry's range, and so does every block on the lists it leaves.
C31_BlocksInsideRealRange ==
    FreshlyInitialized =>
        /\ \A e \in AvailableOf(boot.entries) :
               \A i \in DOMAIN EntryBlocks(e) : InRealRange(EntryBlocks(e)[i], e)
        /\ \A b \in FreeEntries(Self) :
               \E e \in AvailableOf(boot.entries) : InRealRange(b, e)

\* The allocator the caller built on the platform of this run.
Built ==
    LET p == CHOOSE q \in MemoryMaps : q.name = boot.name
    IN  new(p.memory_start, p.memory_end, DirectBitmap(p), << >>, boot.checks)

\* C32: the initialized flag is false in every state of initialize's
\* bitmap reset and region walk and becomes true only after the last entry
\* has been processed (the steps then add up to the whole call); once true
\* it never becomes false again; an allocate observed before the flag is
\* set returns NotInitialized.
C32_FlagSetLast ==
    /\ [](walk > 0 => ~initialized)
    /\ [](~initialized =>
             \A order \in RequestOrders :
                 allocate(Self, order) = Ret(Self, "NotInitialized", NULL))
    /\ [](FreshlyInitialized =>
             LET whole == initialize(Built, boot.entries)
             IN  /\ whole.initialized
                 /\ whole.free_lists = free_lists
                 /\ whole.allocated_count = allocated_count
                 /\ \A a \in DOMAIN ram : whole.ram[a] = ram[a])
    /\ [][(~initialized /\ initialized') => walk = Len(boot.entries) + 1]_vars
    /\ [][initialized => initialized']_vars

\* An allocate was turned away in the middle of the walk, with blocks
\* already on the free lists.
C32_Witness ==
    /\ walk > 1
    /\ ~initialized
    /\ \E o \in Orders : free_lists[o] # NULL
    /\ last = Call("allocate", "NotInitialized")

\* The page ranges handed to the marking loops: inside the bitmap, across
\* its end, and wholly beyond total_pages.
MarkStarts(m) ==
    { 0, 1, 3, m.total_pages - 1, m.total_pages, m.total_pages + 5 }

MarkCounts == { 0, 1, 2, 4 }

\* The pages of start_idx .. start_idx + count - 1 below total_pages.
MarkedPages(m, start_idx, count) ==
    { p \in start_idx .. (start_idx + count - 1) : p < m.total_pages }

\* Bitmap word `a' of m with the bits of `pages' cleared or set.
WordAfter(m, a, pages, toOne) ==
    LET bits == { p % USIZE_BITS :
                    p \in { q \in pages :
                              BitmapWordAddr(m, q \div USIZE_BITS) = a } }
    IN  IF toOne THEN m.ram[a] \cup bits ELSE m.ram[a] \ bits

\* C33: mark_pages_as_free and mark_pages_as_allocated change the bits of
\* the pages of the range below total_pages and nothing else, move the
\* allocated count by the number of bits that flip, have the same effect
\* done twice as done once, and change nothing for a range at or beyond
\* total_pages.
C33_MarkingFlipsOnly ==
    (HasAllocator /\ status = "running" /\ (initialized \/ walk > 0)) =>
        \A start_idx \in MarkStarts(Self), count \in MarkCounts :
            LET pages == MarkedPages(Self, start_idx, count)
                freed == mark_pages_as_free(Self, start_idx, count)
                taken == mark_pages_as_allocated(Self, start_idx, count)
            IN  /\ mark_pages_as_free(freed, start_idx, count) = freed
                /\ mark_pages_as_allocated(taken, start_idx, count) = taken
                /\ freed = [Self EXCEPT
                       !.ram = [a \in DOMAIN ram |->
                                   WordAfter(Self, a, pages, FALSE)],
                       !.allocated_count =
                           @ - Cardinality({ p \in pages : BitIsSet(Self, p) })]
                /\ taken = [Self EXCEPT
                       !.ram = [a \in DOMAIN ram |->
                                   WordAfter(Self, a, pages, TRUE)],
                       !.allocated_count =
                           @ + Cardinality({ p \in pages : ~BitIsSet(Self, p) })]
                /\ start_idx >= total_pages => freed = Self /\ taken = Self

\* After a successful allocate the first four pages hold both set and
\* clear bits: marking them either way flips some bits and not others.
C33_Witness ==
    /\ Serving
    /\ last = Call("allocate", "Ok")
    /\ total_pages >= 4
    /\ \E p, q \in 0 .. 3 : BitIsSet(Self, p) /\ ~BitIsSet(Self, q)

\* C34: a second free(addr, order) of a block that is already free, with
\* no allocate in between, does not link the address into a free list a
\* second time: the lists stay acyclic and duplicate-free, and two later
\* allocate calls do not return the same address.
C34_DoubleFreeHarmless ==
    Serving =>
        \A b \in { x \in BagToSet(live) : Freeable(Self, x) } :
            LET first == free(Self, b.addr, b.order)
                second == free(first, b.addr, b.order)
                r1 == allocate(second, b.order)
                r2 == allocate(r1.m, b.order)
            IN  Running(first) =>
                    /\ Running(second)
                    /\ \A o \in Orders :
                           ListEnd(second.ram, second.free_lists[o], {}) = "null"
                    /\ \A e1, e2 \in FreeEntries(second) :
                           e1 # e2 => ~Overlap(e1, e2)
                    /\ (r1.result = "Ok" /\ r2.result = "Ok") => r1.addr # r2.addr

\* Byte sizes handed to size_to_order: around one page, around powers of
\* two of pages, between them, beyond the largest block, and the sizes the
\* machine itself holds.
ByteSizes ==
    { 0, 1, PAGE_SIZE - 1, PAGE_SIZE, PAGE_SIZE + 1, 2 * PAGE_SIZE,
      2 * PAGE_SIZE + 1, 3 * PAGE_SIZE, 3 * PAGE_SIZE + 1, 4 * PAGE_SIZE,
      order_to_size(MAX_ORDER) - 1, order_to_size(MAX_ORDER),
      order_to_size(MAX_ORDER) + 1, 3 * order_to_size(MAX_ORDER) }
        \cup { total_memory, total_memory + 1 }

Covering(n) == { o \in Orders : order_to_size(o) >= n }

SmallestCovering(n) ==
    IF Covering(n) = {} THEN MAX_ORDER
    ELSE CHOOSE o \in Covering(n) : \A other \in Covering(n) : o <= other

\* C35: for every byte size n, size_to_order(n) is the smallest order o in
\* 0..MAX_ORDER with PAGE_SIZE << o >= n, or MAX_ORDER when no order covers
\* n, also for sizes that are not a multiple of PAGE_SIZE.
C35_SmallestCoveringOrder ==
    \A n \in ByteSizes : size_to_order(n) = SmallestCovering(n)

----------------------------------------------------------------------------
(* OnceLock::initialize (sync/oncelock.rs, sync/once.rs) *)

\* Once::is_completed.
is_completed(state) == state = "Complete"

\* Once::set_state: the state the Once holds after the call.
set_state(state, s) == s

\* A OnceLock: its Once and the value in its cell.
OnceLock(state, value) == [once |-> state, value |-> value]

\* initialize without the look at the Once.
OnceLock_initialize_unguarded(cell, v) ==
    OnceLock(set_state(cell.once, "Complete"), v)

\* OnceLock::initialize: a completed cell is left alone, an incomplete one
\* takes the value and completes.
OnceLock_initialize(cell, v) ==
    IF is_completed(cell.once) THEN cell
    ELSE OnceLock(set_state(cell.once, "Complete"), v)

\* Sizes, in pages, of the allocators offered to the cell.
OncePages == { 128, 256 }

\* The values offered to PHYSICAL_MEMORY_ALLOCATOR: allocators built over
\* the memory at 1 MiB, not yet initialized.
OnceValues ==
    { new(KERNEL_MEMORY_START, KERNEL_MEMORY_START + pages * PAGE_SIZE,
          [addr |-> KERNEL_MEMORY_START, len |-> (pages + 31) \div 32],
          ram, boot.checks) : pages \in OncePages }

\* PHYSICAL_MEMORY_ALLOCATOR.initialize(v).
OnceLockInitialize ==
    /\ status = "running"
    /\ boot.kind = "kernel"
    /\ \E v \in OnceValues :
          LET cell == OnceLock_initialize(OnceLock(once, Self), v)
          IN  /\ Commit(cell.value)
              /\ once' = cell.once
    /\ last' = Call("OnceLock::initialize", "none")
    /\ UNCHANGED << boot, live, ops >>
    /\ UNCHANGED callers
    /\ UNCHANGED console

\* Calls on the cell and on the allocator in it.
NextOnce ==
    \/ OnceLockInitialize
    \/ Initialize
    \/ \E order \in RequestOrders : Allocate(order)
    \/ \E b \in BagToSet(live) : Free(b)

InitOnce == Boot({ Kernel }, MaxOps)

SpecOnce == InitOnce /\ [][NextOnce]_vars

\* The allocator fields, the cell's value.
Value ==
    << free_lists, total_memory, memory_start, memory_end, initialized,
       allocated_pages, allocated_count, total_pages, ram, status >>

\* C36: OnceLock::initialize stores a value only on the first call: after
\* it has completed once the Once state is Complete and stays Complete, and
\* every later initialize call leaves the stored value unchanged.
C36_InitializeOnce ==
    /\ [][(last' = Call("OnceLock::initialize", "none") /\ ~is_completed(once))
             => is_completed(once') /\ Self' \in OnceValues]_vars
    /\ [][is_completed(once) => is_completed(once')]_vars
    /\ [][(last' = Call("OnceLock::initialize", "none") /\ is_completed(once))
             => UNCHANGED Value]_vars

\* A later call has met a value that was stored and then initialized.
C36_Witness ==
    /\ last = Call("OnceLock::initialize", "none")
    /\ is_completed(once)
    /\ initialized
    /\ live # EmptyBag

====
